---- MODULE Spec2Model ----
(***************************************************************************)
(* LC-API (src/main.py): a Flask handler, get_user_data, that serves a     *)
(* LeetCode profile through a Redis read-through cache.                     *)
(*                                                                          *)
(* Python values are modelled as tagged records, one field per type:       *)
(*   None  [null |-> TRUE]     str   [str |-> s]      int  [int |-> n]      *)
(*   list  [list |-> <<..>>]   dict  [obj |-> << <<key, value>>, .. >>]     *)
(* A dict keeps its pairs in insertion order, as Python's does.  A str      *)
(* that holds JSON text (the submission calendar, a cache value) is         *)
(* [text |-> the sequence of its lexical tokens]; json.dumps writes that    *)
(* sequence and json.loads parses it.                                       *)
(* An evaluation that may raise yields [ok |-> TRUE, v |-> value] or        *)
(* [ok |-> FALSE, msg |-> str(exception)]; in a chain of them, written      *)
(* `x == IF w.ok THEN .. ELSE w`, the first exception raised is the one     *)
(* that comes out.                                                          *)
(***************************************************************************)
EXTENDS Integers, Sequences, FiniteSets, TLC

\* ------------------------------------------------------------ Python values

JNull == [null |-> TRUE]
JStr(s) == [str |-> s]
JInt(n) == [int |-> n]
JText(toks) == [text |-> toks]
JList(xs) == [list |-> xs]
JObj(ps) == [obj |-> ps]

IsNull(v) == DOMAIN v = {"null"}
IsText(v) == DOMAIN v = {"text"}
IsStr(v) == DOMAIN v = {"str"} \/ IsText(v)
IsInt(v) == DOMAIN v = {"int"}
IsList(v) == DOMAIN v = {"list"}
IsObj(v) == DOMAIN v = {"obj"}

\* type(v).__name__, as Python's error messages print it
TypeName(v) ==
  IF IsNull(v) THEN "NoneType"
  ELSE IF IsStr(v) THEN "str"
  ELSE IF IsInt(v) THEN "int"
  ELSE IF IsList(v) THEN "list"
  ELSE "dict"

Ok(v) == [ok |-> TRUE, v |-> v]
Raise(m) == [ok |-> FALSE, msg |-> m]

\* bool(v)
Truthy(v) ==
  IF IsNull(v) THEN FALSE
  ELSE IF IsText(v) THEN Len(v.text) > 0
  ELSE IF IsStr(v) THEN v.str # ""
  ELSE IF IsInt(v) THEN v.int # 0
  ELSE IF IsList(v) THEN Len(v.list) > 0
  ELSE Len(v.obj) > 0

\* ---- a dict as a sequence of <<key, value>> pairs
PairsHas(ps, k) == \E i \in 1..Len(ps) : ps[i][1] = k
PairsGet(ps, k) == ps[CHOOSE i \in 1..Len(ps) : ps[i][1] = k][2]
\* d[k] = v: an existing key keeps its place, a new key goes last
PairsSet(ps, k, v) ==
  IF PairsHas(ps, k)
  THEN [i \in 1..Len(ps) |-> IF ps[i][1] = k THEN <<k, v>> ELSE ps[i]]
  ELSE Append(ps, <<k, v>>)
PairsKeys(ps) == [i \in 1..Len(ps) |-> ps[i][1]]

\* `k in c` for a str k.  (A str container is a substring test; the payloads
\* considered hold no str at that place.)
Contains(k, c) ==
  IF IsObj(c) THEN Ok(PairsHas(c.obj, k))
  ELSE IF IsList(c) THEN Ok(\E i \in 1..Len(c.list) : c.list[i] = JStr(k))
  ELSE Raise("argument of type '" \o TypeName(c) \o "' is not iterable")

\* c[k] for a str k
Subscript(c, k) ==
  IF IsObj(c)
  THEN IF PairsHas(c.obj, k) THEN Ok(PairsGet(c.obj, k))
       ELSE Raise("'" \o k \o "'")
  ELSE IF IsList(c)
  THEN Raise("list indices must be integers or slices, not str")
  ELSE IF IsStr(c)
  THEN Raise("string indices must be integers, not 'str'")
  ELSE Raise("'" \o TypeName(c) \o "' object is not subscriptable")

\* c.get(k, default)
GetMethod(c, k, default) ==
  IF IsObj(c)
  THEN Ok(IF PairsHas(c.obj, k) THEN PairsGet(c.obj, k) ELSE default)
  ELSE Raise("'" \o TypeName(c) \o "' object has no attribute 'get'")

\* the values a `for x in c` loop visits (a dict yields its keys)
Iterate(c) ==
  IF IsList(c) THEN Ok(c.list)
  ELSE IF IsObj(c) THEN Ok([i \in 1..Len(c.obj) |-> JStr(c.obj[i][1])])
  ELSE Raise("'" \o TypeName(c) \o "' object is not iterable")

\* ------------------------------------------------------------ json

Punct(c) == [p |-> c]
\* a str, an int and None are one token each
IsScalar(v) == IsNull(v) \/ IsStr(v) \/ IsInt(v)

RECURSIVE Dumps(_)
RECURSIVE DumpsItems(_, _)
RECURSIVE DumpsMembers(_, _)

\* the elements xs[i..] of a list, comma separated
DumpsItems(xs, i) ==
  IF i > Len(xs) THEN <<>>
  ELSE (IF i > 1 THEN <<Punct(",")>> ELSE <<>>)
       \o Dumps(xs[i]) \o DumpsItems(xs, i + 1)

RECURSIVE DumpsMembersSkippingNone(_, _)
\* a DumpsMembers that leaves out the members whose value is None
DumpsMembersSkippingNone(ps, i) ==
  IF \E j \in 1..Len(ps) : IsNull(ps[j][2])
  THEN DumpsMembersSkippingNone(SelectSeq(ps, LAMBDA m : ~IsNull(m[2])), i)
  ELSE IF i > Len(ps) THEN <<>>
  ELSE (IF i > 1 THEN <<Punct(",")>> ELSE <<>>)
       \o <<JStr(ps[i][1]), Punct(":")>> \o Dumps(ps[i][2])
       \o DumpsMembersSkippingNone(ps, i + 1)

\* the members ps[i..] of a dict, comma separated
DumpsMembers(ps, i) ==
  IF i > Len(ps) THEN <<>>
  ELSE (IF i > 1 THEN <<Punct(",")>> ELSE <<>>)
       \o <<JStr(ps[i][1]), Punct(":")>> \o Dumps(ps[i][2])
       \o DumpsMembers(ps, i + 1)

\* json.dumps(v): the text, as its token sequence
Dumps(v) ==
  IF IsScalar(v) THEN <<v>>
  ELSE IF IsList(v)
  THEN <<Punct("[")>> \o DumpsItems(v.list, 1) \o <<Punct("]")>>
  ELSE <<Punct("{")>> \o DumpsMembers(v.obj, 1) \o <<Punct("}")>>

JsonError == "Expecting value: line 1 column 1 (char 0)"
Parsed(v, next) == [ok |-> TRUE, v |-> v, next |-> next]
NoParse == [ok |-> FALSE, msg |-> JsonError]
TokAt(t, i, tok) == i <= Len(t) /\ t[i] = tok

RECURSIVE ParseValue(_, _)
RECURSIVE ParseItems(_, _, _)
RECURSIVE ParseMembers(_, _, _)

\* the rest of a list whose elements so far are acc; t[i] starts an element
ParseItems(t, i, acc) ==
  LET e == ParseValue(t, i) IN
  IF ~e.ok THEN NoParse
  ELSE IF TokAt(t, e.next, Punct(","))
  THEN ParseItems(t, e.next + 1, Append(acc, e.v))
  ELSE IF TokAt(t, e.next, Punct("]"))
  THEN Parsed(JList(Append(acc, e.v)), e.next + 1)
  ELSE NoParse

\* the rest of a dict whose members so far are acc; t[i] is a member's key.
\* A repeated key keeps its last value.
ParseMembers(t, i, acc) ==
  IF ~(i <= Len(t) /\ DOMAIN t[i] = {"str"} /\ TokAt(t, i + 1, Punct(":")))
  THEN NoParse
  ELSE LET e == ParseValue(t, i + 2) IN
       IF ~e.ok THEN NoParse
       ELSE IF TokAt(t, e.next, Punct(","))
       THEN ParseMembers(t, e.next + 1, PairsSet(acc, t[i].str, e.v))
       ELSE IF TokAt(t, e.next, Punct("}"))
       THEN Parsed(JObj(PairsSet(acc, t[i].str, e.v)), e.next + 1)
       ELSE NoParse

\* one JSON value starting at t[i]
ParseValue(t, i) ==
  IF i > Len(t) THEN NoParse
  ELSE IF IsScalar(t[i]) THEN Parsed(t[i], i + 1)
  ELSE IF t[i] = Punct("[")
  THEN IF TokAt(t, i + 1, Punct("]")) THEN Parsed(JList(<<>>), i + 2)
       ELSE ParseItems(t, i + 1, <<>>)
  ELSE IF t[i] = Punct("{")
  THEN IF TokAt(t, i + 1, Punct("}")) THEN Parsed(JObj(<<>>), i + 2)
       ELSE ParseMembers(t, i + 1, <<>>)
  ELSE NoParse

\* json.loads(s) of a Python value s: its text must be exactly one JSON value
\* (a str given by its characters only, [str |-> ..], is no JSON text here)
Loads(s) ==
  IF ~IsStr(s)
  THEN Raise("the JSON object must be str, bytes or bytearray, not "
             \o TypeName(s))
  ELSE IF ~IsText(s) THEN Raise(JsonError)
  ELSE LET r == ParseValue(s.text, 1) IN
       IF r.ok /\ r.next = Len(s.text) + 1 THEN Ok(r.v) ELSE Raise(JsonError)

\* ------------------------------------------------------------ datetime

SecondsPerDay == 86400

\* date.fromtimestamp(ts) as the day's ordinal, days since 1970-01-01.  The
\* server's zone is taken to be UTC.
DateFromTimestamp(ts) == ts \div SecondsPerDay

\* the civil date [y, m, d] of a day ordinal (proleptic Gregorian calendar)
CivilFromDays(days) ==
  LET z == days + 719468
      era == z \div 146097
      doe == z - era * 146097
      yoe == (doe - doe \div 1460 + doe \div 36524 - doe \div 146096) \div 365
      doy == doe - (365 * yoe + yoe \div 4 - yoe \div 100)
      mp == (5 * doy + 2) \div 153
      m == IF mp < 10 THEN mp + 3 ELSE mp - 9
  IN [y |-> yoe + era * 400 + (IF m <= 2 THEN 1 ELSE 0),
      m |-> m,
      d |-> doy - (153 * mp + 2) \div 5 + 1]

\* date.year
YearOf(days) == CivilFromDays(days).y

Pad2(n) == IF n < 10 THEN "0" \o ToString(n) ELSE ToString(n)
Pad4(n) ==
  IF n < 10 THEN "000" \o ToString(n)
  ELSE IF n < 100 THEN "00" \o ToString(n)
  ELSE IF n < 1000 THEN "0" \o ToString(n)
  ELSE ToString(n)

\* a civil date as YYYY-MM-DD
IsoOf(c) == Pad4(c.y) \o "-" \o Pad2(c.m) \o "-" \o Pad2(c.d)

\* date.isoformat()
IsoFormat(days) == IsoOf(CivilFromDays(days))

\* ------------------------------------------------------------ the calendar

\* the timestamps that occur in the calendars considered
Timestamps ==
  {1650000000, 1700000000, 1700438400, 1732000000, 1732003600, 1732060800}

\* int(timestamp_str): the number whose decimal text is s
IntOf(s) ==
  IF \E n \in Timestamps : ToString(n) = s
  THEN Ok(CHOOSE n \in Timestamps : ToString(n) = s)
  ELSE Raise("invalid literal for int() with base 10: '" \o s \o "'")

\* a bucket while it is filled: daily, a dict date_str -> count, and total
EmptyBucket == [daily |-> <<>>, total |-> 0]

\* `total += count`
AddCount(total, count) ==
  IF IsInt(count) THEN Ok(total + count.int)
  ELSE Raise("unsupported operand type(s) for +=: 'int' and '"
             \o TypeName(count) \o "'")

\* the bucket with the total t, if the addition did not raise
WithTotal(bucket, date_str, count, t) ==
  IF ~t.ok THEN t
  ELSE Ok([daily |-> PairsSet(bucket.daily, date_str, count), total |-> t.v])

\* bucket["daily"][date_str] = count; bucket["total"] += count
Accumulate(bucket, date_str, count) ==
  WithTotal(bucket, date_str, count, AddCount(bucket.total, count))

\* an InWindow that leaves the window's first day out
InWindowExclusive(date, today) == today - 365 < date /\ date <= today
\* the trailing window's test, on day ordinals
InWindow(date, today) == today - 365 <= date /\ date <= today

\* yearly_data[year], a defaultdict's: a fresh bucket for a year not seen yet
YearBucket(yearly, year) ==
  IF PairsHas(yearly, year) THEN PairsGet(yearly, year) ELSE EmptyBucket

\* acc with the year's bucket y and the current bucket c, unless one raised
Accumulated(acc, year, y, c) ==
  IF ~y.ok THEN y
  ELSE IF ~c.ok THEN c
  ELSE Ok([yearly |-> PairsSet(acc.yearly, year, y.v), current |-> c.v])

\* the loop's body from "Add to yearly data" on
AddEntry(acc, date, year, date_str, count, today) ==
  Accumulated(acc, year,
              Accumulate(YearBucket(acc.yearly, year), date_str, count),
              IF InWindow(date, today)
              THEN Accumulate(acc.current, date_str, count)
              ELSE Ok(acc.current))

\* the loop's body once timestamp = int(timestamp_str) is known
EntryAt(acc, timestamp, count, today) ==
  IF ~timestamp.ok THEN timestamp
  ELSE AddEntry(acc, DateFromTimestamp(timestamp.v),
                YearOf(DateFromTimestamp(timestamp.v)),
                IsoFormat(DateFromTimestamp(timestamp.v)), count, today)

\* one pass of the loop's body over the entry (timestamp_str, count);
\* acc is [yearly, current], yearly a defaultdict year -> bucket
ProcessEntry(acc, timestamp_str, count, today) ==
  EntryAt(acc, IntOf(timestamp_str), count, today)

RECURSIVE ProcessEntries(_, _, _, _)
\* the loop after the pass over items[i], whose outcome is r
EntriesAfter(r, items, i, today) ==
  IF ~r.ok THEN r ELSE ProcessEntries(items, i + 1, r.v, today)

\* the loop over submission_calendar.items(), from the i-th item on
ProcessEntries(items, i, acc, today) ==
  IF i > Len(items) THEN Ok(acc)
  ELSE EntriesAfter(ProcessEntry(acc, items[i][1], items[i][2], today),
                    items, i, today)

RECURSIVE SortedDescending(_)
\* a Latest that takes the least
Earliest(years) == CHOOSE y \in years : \A z \in years : y <= z
\* the greatest of a set of years
Latest(years) == CHOOSE y \in years : \A z \in years : z <= y
\* sorted(years, reverse=True) of a set of years
SortedDescending(years) ==
  IF years = {} THEN <<>>
  ELSE <<Latest(years)>> \o SortedDescending(years \ {Latest(years)})

\* a finished bucket as the dict {"daily": .., "total": ..}
BucketObj(b) == JObj(<< <<"daily", JObj(b.daily)>>, <<"total", JInt(b.total)>> >>)

RECURSIVE AddYears(_, _, _, _)
\* progress[str(year)] = {...} for the years order[i..]
AddYears(progress, order, i, yearly) ==
  IF i > Len(order) THEN progress
  ELSE AddYears(PairsSet(progress, ToString(order[i]),
                         BucketObj(PairsGet(yearly, order[i]))),
                order, i + 1, yearly)

\* progress: "current" first, then the years, latest first
BuildProgress(yearly, current) ==
  JObj(AddYears(<< <<"current", BucketObj(current)>> >>,
                SortedDescending({yearly[i][1] : i \in 1..Len(yearly)}),
                1, yearly))

\* the function's return once the loop has ended with r
ProgressAfter(r) == IF ~r.ok THEN r ELSE Ok(BuildProgress(r.v.yearly, r.v.current))

\* process_progress_by_year(submission_calendar), with date.today() = today
ProcessProgressByYear(submission_calendar, today) ==
  IF ~IsObj(submission_calendar)
  THEN Raise("'" \o TypeName(submission_calendar)
             \o "' object has no attribute 'items'")
  ELSE ProgressAfter(ProcessEntries(submission_calendar.obj, 1,
                       [yearly |-> <<>>, current |-> EmptyBucket], today))

\* ------------------------------------------------------------ the handler

\* a CacheKey that folds the username's case
CacheKeyFolded(username) ==
  "leetcode_user:" \o (IF username = "Alice" THEN "alice" ELSE username)
\* cache_key = f"leetcode_user:{username}"
CacheKey(username) == "leetcode_user:" \o username

TTL == 3600

NotFoundMessage ==
  "Could not fetch user data. Maybe invalid username or blocked request."
ErrorObj(message) == JObj(<< <<"error", JStr(message)>> >>)
\* a CatchAll that answers every exception with the not-found message
CatchAllNotFound(msg) == ErrorObj(NotFoundMessage)
\* a CatchAll that leaves the prefix out
CatchAllBare(msg) == ErrorObj(msg)
\* the except clause's object for an exception whose str() is msg
CatchAll(msg) == ErrorObj("An error occurred: " \o msg)

\* the "safety checks": TRUE when the payload is rejected
SafetyCheck(data) ==
  LET has == Contains("data", data)
      d == Subscript(data, "data")
      mu == Subscript(d.v, "matchedUser")
  IN
  IF ~has.ok THEN has
  ELSE IF ~has.v THEN Ok(TRUE)
  ELSE IF ~d.ok THEN d
  ELSE IF ~Truthy(d.v) THEN Ok(TRUE)
  ELSE IF ~mu.ok THEN mu
  ELSE Ok(IsNull(mu.v))

\* str.lower(), on the difficulty names that occur
Lower(s) ==
  CASE s = "Easy" -> "easy"
    [] s = "Medium" -> "medium"
    [] s = "Hard" -> "hard"
    [] s = "All" -> "all"
    [] s = "Extreme" -> "extreme"
    [] OTHER -> s

\* stat["difficulty"].lower()
DifficultyOf(stat) ==
  LET d == Subscript(stat, "difficulty") IN
  IF ~d.ok THEN d
  ELSE IF IsStr(d.v) /\ ~IsText(d.v) THEN Ok(Lower(d.v.str))
  ELSE Raise("'" \o TypeName(d.v) \o "' object has no attribute 'lower'")

InitialProblems ==
  << <<"easy", JObj(<< <<"solved", JInt(0)>>, <<"total", JInt(0)>> >>)>>,
     <<"medium", JObj(<< <<"solved", JInt(0)>>, <<"total", JInt(0)>> >>)>>,
     <<"hard", JObj(<< <<"solved", JInt(0)>>, <<"total", JInt(0)>> >>)>> >>

\* a SetStat without the guard `difficulty in problems`
SetStatAnyTier(problems, stat, field) ==
  LET difficulty == DifficultyOf(stat)
      count == Subscript(stat, "count")
  IN
  IF ~difficulty.ok THEN difficulty
  ELSE IF ~count.ok THEN count
  ELSE Ok(PairsSet(problems, difficulty.v,
                   JObj(PairsSet(IF PairsHas(problems, difficulty.v)
                                 THEN PairsGet(problems, difficulty.v).obj
                                 ELSE <<>>,
                                 field, count.v))))

\* one pass of a statistics loop: problems[difficulty][field] = stat["count"]
\* when the lower-cased difficulty is a key of problems
SetStat(problems, stat, field) ==
  LET difficulty == DifficultyOf(stat)
      count == Subscript(stat, "count")
  IN
  IF ~difficulty.ok THEN difficulty
  ELSE IF ~PairsHas(problems, difficulty.v) THEN Ok(problems)
  ELSE IF ~count.ok THEN count
  ELSE Ok(PairsSet(problems, difficulty.v,
                   JObj(PairsSet(PairsGet(problems, difficulty.v).obj,
                                 field, count.v))))

RECURSIVE SetStats(_, _, _, _)
\* a statistics loop over stats[i..]
SetStats(problems, stats, i, field) ==
  IF i > Len(stats) THEN Ok(problems)
  ELSE LET next == SetStat(problems, stats[i], field) IN
       IF ~next.ok THEN next ELSE SetStats(next.v, stats, i + 1, field)

\* the second loop, over what iterating acSubmissionNum gives
SolvedLoop(withTotals, subs) ==
  IF ~subs.ok THEN subs ELSE SetStats(withTotals, subs.v, 1, "solved")

\* user_data["submitStats"]["acSubmissionNum"]
AcSubmissionNum(submitStats) ==
  IF ~submitStats.ok THEN submitStats
  ELSE Subscript(submitStats.v, "acSubmissionNum")

\* iter(ac)
IterateAc(ac) == IF ~ac.ok THEN ac ELSE Iterate(ac.v)

\* the statistics after the first loop, whose outcome is withTotals
SolvedAfter(withTotals, user_data) ==
  IF ~withTotals.ok THEN withTotals
  ELSE SolvedLoop(withTotals.v,
         IterateAc(AcSubmissionNum(Subscript(user_data, "submitStats"))))

\* the first loop, over what iterating all_questions gives
TotalLoop(qs) ==
  IF ~qs.ok THEN qs ELSE SetStats(InitialProblems, qs.v, 1, "total")

AsObj(pairs) == IF ~pairs.ok THEN pairs ELSE Ok(JObj(pairs.v))

\* both loops: totals from all_questions, solved from acSubmissionNum
ProblemStatistics(all_questions, user_data) ==
  AsObj(SolvedAfter(TotalLoop(Iterate(all_questions)), user_data))

\* a BuildResult that forgets the "problem" key
BuildResultPartial(user_data, profile, progress, problems) ==
  IF ~IsObj(profile) THEN GetMethod(profile, "ranking", JNull)
  ELSE Ok(JObj(<<
      <<"username", GetMethod(user_data, "username", JNull).v>>,
      <<"github", GetMethod(user_data, "githubUrl", JNull).v>>,
      <<"twitter", GetMethod(user_data, "twitterUrl", JNull).v>>,
      <<"linkedin", GetMethod(user_data, "linkedinUrl", JNull).v>>,
      <<"ranking", GetMethod(profile, "ranking", JNull).v>>,
      <<"realname", GetMethod(profile, "realName", JNull).v>>,
      <<"aboutme", GetMethod(profile, "aboutMe", JNull).v>>,
      <<"school", GetMethod(profile, "school", JNull).v>>,
      <<"website", GetMethod(profile, "websites", JList(<<>>)).v>>,
      <<"country_name", GetMethod(profile, "countryName", JNull).v>>,
      <<"company", GetMethod(profile, "company", JNull).v>>,
      <<"job_title", GetMethod(profile, "jobTitle", JNull).v>>,
      <<"skill", GetMethod(profile, "skillTags", JList(<<>>)).v>>,
      <<"progress", progress>> >>))

\* the result dict, its keys in the order written; profile.get raises when
\* profile is no dict
BuildResult(user_data, profile, progress, problems) ==
  IF ~IsObj(profile) THEN GetMethod(profile, "ranking", JNull)
  ELSE Ok(JObj(<<
      <<"username", GetMethod(user_data, "username", JNull).v>>,
      <<"github", GetMethod(user_data, "githubUrl", JNull).v>>,
      <<"twitter", GetMethod(user_data, "twitterUrl", JNull).v>>,
      <<"linkedin", GetMethod(user_data, "linkedinUrl", JNull).v>>,
      <<"ranking", GetMethod(profile, "ranking", JNull).v>>,
      <<"realname", GetMethod(profile, "realName", JNull).v>>,
      <<"aboutme", GetMethod(profile, "aboutMe", JNull).v>>,
      <<"school", GetMethod(profile, "school", JNull).v>>,
      <<"website", GetMethod(profile, "websites", JList(<<>>)).v>>,
      <<"country_name", GetMethod(profile, "countryName", JNull).v>>,
      <<"company", GetMethod(profile, "company", JNull).v>>,
      <<"job_title", GetMethod(profile, "jobTitle", JNull).v>>,
      <<"skill", GetMethod(profile, "skillTags", JList(<<>>)).v>>,
      <<"progress", progress>>,
      <<"problem", problems>> >>))

\* the handler from `user_data = ..` to `result = {..}`, a statement at a time:
\* each takes the outcome of the one before

WithProblems(user_data, profile, progress, problems) ==
  IF ~problems.ok THEN problems
  ELSE BuildResult(user_data, profile, progress.v, problems.v)

WithProgress(user_data, all_questions, profile, progress) ==
  IF ~progress.ok THEN progress
  ELSE WithProblems(user_data, profile, progress,
                    ProblemStatistics(all_questions, user_data))

\* a WithCalendar that takes a calendar that did not parse for an empty one
WithCalendarDefaulting(user_data, all_questions, profile, submission_calendar, today) ==
  WithProgress(user_data, all_questions, profile,
               ProcessProgressByYear(IF submission_calendar.ok
                                     THEN submission_calendar.v ELSE JObj(<<>>),
                                     today))

WithCalendar(user_data, all_questions, profile, submission_calendar, today) ==
  IF ~submission_calendar.ok THEN submission_calendar
  ELSE WithProgress(user_data, all_questions, profile,
                    ProcessProgressByYear(submission_calendar.v, today))

WithCalendarStr(user_data, all_questions, profile, calendar_str, today) ==
  IF ~calendar_str.ok THEN calendar_str
  ELSE WithCalendar(user_data, all_questions, profile,
                    Loads(calendar_str.v), today)

WithUserCalendar(user_data, all_questions, profile, userCalendar, today) ==
  IF ~userCalendar.ok THEN userCalendar
  ELSE WithCalendarStr(user_data, all_questions, profile,
                       Subscript(userCalendar.v, "submissionCalendar"), today)

WithProfile(user_data, all_questions, profile, today) ==
  IF ~profile.ok THEN profile
  ELSE WithUserCalendar(user_data, all_questions, profile.v,
                        Subscript(user_data, "userCalendar"), today)

WithAllQuestions(user_data, all_questions, today) ==
  IF ~all_questions.ok THEN all_questions
  ELSE WithProfile(user_data, all_questions.v,
                   GetMethod(user_data, "profile", JObj(<<>>)), today)

WithUserData(d, user_data, today) ==
  IF ~user_data.ok THEN user_data
  ELSE WithAllQuestions(user_data.v, Subscript(d, "allQuestionsCount"), today)

WithData(d, today) ==
  IF ~d.ok THEN d ELSE WithUserData(d.v, Subscript(d.v, "matchedUser"), today)

\* from user_data = data["data"]["matchedUser"] to the result dict
ProcessUser(data, today) == WithData(Subscript(data, "data"), today)

\* the handler's outcome for a payload that was rejected (TRUE), passed (FALSE)
\* or made the checks raise, r being what the rest of the body does
Outcome(rejected, r) ==
  IF ~rejected.ok THEN [kind |-> "raise", msg |-> rejected.msg]
  ELSE IF rejected.v THEN [kind |-> "not_found"]
  ELSE IF r.ok THEN [kind |-> "result", v |-> r.v]
  ELSE [kind |-> "raise", msg |-> r.msg]

\* what the handler makes of an upstream payload, before the cache write:
\* [kind |-> "not_found"], [kind |-> "raise", msg |-> ..] or
\* [kind |-> "result", v |-> the result dict]
Assemble(data, today) ==
  Outcome(SafetyCheck(data), ProcessUser(data, today))

\* ------------------------------------------------------------ upstream

Usernames == {"alice", "Alice"}

\* ---- submission calendars, as the JSON text upstream sends
CalendarText(pairs) == JText(Dumps(JObj(pairs)))
\* a text cut short: no JSON
Truncated(text) == JText(SubSeq(text.text, 1, Len(text.text) - 1))

CalTwoYears ==
  CalendarText(<< <<"1700000000", JInt(3)>>, <<"1732000000", JInt(2)>> >>)
CalBoundary ==
  CalendarText(<< <<"1732060800", JInt(4)>>, <<"1700438400", JInt(1)>>,
                  <<"1650000000", JInt(7)>> >>)
CalSameDay ==
  CalendarText(<< <<"1732000000", JInt(2)>>, <<"1732003600", JInt(5)>> >>)
CalEmpty == CalendarText(<<>>)

Stat(difficulty, count) ==
  JObj(<< <<"difficulty", JStr(difficulty)>>, <<"count", JInt(count)>> >>)
AllQuestions ==
  JList(<<Stat("All", 3300), Stat("Easy", 800), Stat("Medium", 1700),
          Stat("Hard", 800)>>)
SubmitStats(solved) ==
  JObj(<< <<"acSubmissionNum",
            JList(<<Stat("All", solved + 3), Stat("Easy", solved),
                    Stat("Medium", 2), Stat("Hard", 1)>>)>>,
          <<"totalSubmissionNum", JList(<<Stat("All", solved + 9)>>)>> >>)

FullProfile ==
  JObj(<< <<"realName", JStr("Alice A")>>, <<"aboutMe", JStr("hi")>>,
          <<"school", JNull>>, <<"websites", JList(<<JStr("https://a.io")>>)>>,
          <<"countryName", JStr("Canada")>>, <<"company", JNull>>,
          <<"jobTitle", JStr("SWE")>>,
          <<"skillTags", JList(<<JStr("python"), JStr("go")>>)>>,
          <<"userAvatar", JStr("https://a.io/a.png")>>,
          <<"ranking", JInt(1234)>> >>)
\* a profile with fields absent (realName, websites, ..) and null (skillTags)
SparseProfile ==
  JObj(<< <<"aboutMe", JNull>>, <<"skillTags", JNull>>,
          <<"ranking", JInt(99)>> >>)

\* matchedUser: the identity fields, then the parts given
User(identity, parts) == JObj(identity \o parts)
Identity(username) ==
  << <<"username", JStr(username)>>, <<"githubUrl", JStr("https://github.com/a")>>,
     <<"twitterUrl", JNull>>, <<"linkedinUrl", JStr("https://linkedin.com/in/a")>> >>
Activity(solved, calendar) ==
  << <<"submitStats", SubmitStats(solved)>>,
     <<"userCalendar", JObj(<< <<"submissionCalendar", calendar>> >>)>> >>

\* the GraphQL response's body
Payload(matchedUser) ==
  JObj(<< <<"data", JObj(<< <<"matchedUser", matchedUser>>,
                            <<"allQuestionsCount", AllQuestions>> >>)>> >>)

\* the payloads with a user that upstream may return for username
UserPayloads(username) ==
  { Payload(User(Identity(username),
                 << <<"profile", FullProfile>> >> \o Activity(10, CalTwoYears))),
    Payload(User(Identity(username),
                 << <<"profile", FullProfile>> >> \o Activity(11, CalBoundary))),
    \* no "profile" key, no identity field
    Payload(User(<<>>, Activity(5, CalSameDay))),
    Payload(User(Identity(username),
                 << <<"profile", SparseProfile>> >> \o Activity(0, CalEmpty))),
    \* "profile": null
    Payload(User(Identity(username),
                 << <<"profile", JNull>> >> \o Activity(10, CalTwoYears))),
    \* the calendar's text is no JSON
    Payload(User(Identity(username),
                 << <<"profile", FullProfile>> >>
                 \o Activity(10, Truncated(CalTwoYears)))),
    \* no "userCalendar"
    Payload(User(Identity(username), << <<"profile", FullProfile>> >>)) }

\* the payloads without a user
NoUserPayloads ==
  { JObj(<<>>),
    JObj(<< <<"errors", JList(<<JStr("rate limited")>>)>> >>),
    JObj(<< <<"data", JNull>> >>),
    JObj(<< <<"data", JObj(<<>>)>> >>),
    Payload(JNull),
    JObj(<< <<"data", JObj(<< <<"allQuestionsCount", AllQuestions>> >>)>> >>),
    JList(<<>>),
    JNull }

\* requests.post raising, or response.json() raising on a body that is no JSON
TransportFailures ==
  { "HTTPSConnectionPool(host='leetcode.com', port=443): Max retries exceeded",
    JsonError }

\* get_user_profile(username): it returns the parsed body or raises
UpstreamOutcomes(username) ==
  {Ok(p) : p \in UserPayloads(username) \cup NoUserPayloads}
    \cup {Raise(m) : m \in TransportFailures}

\* redis raising on a store that cannot be reached
CacheDownMessage == "Error 111 connecting to redis:6379. Connection refused."

\* ------------------------------------------------------------ the service

\* one request at a time
Slots == {"r1"}
Keys == {CacheKey(u) : u \in Usernames}

\* the clock at the start, 2024-11-19 23:43:20, and a step of the clock
StartTimes == {1732059800}
TickSeconds == 1800
MaxTicks == 2
MaxRequests == 3

Absent == [absent |-> TRUE]
\* no function is called on its own / the call has not returned
NoCall == [fn |-> "none"]
Pending == [pending |-> TRUE]
\* of a request that has not returned
NoResponse == [path |-> "none", body |-> JNull, msg |-> "", calls |-> 0]

VARIABLES
  slots,          \* the requests the server handles at a time
  cache,          \* the store: key -> Absent or [val |-> text, ttl |-> seconds left]
  now,            \* the clock, seconds since the epoch
  start,          \* the clock's first value
  pc,             \* slot -> where its request stands: "idle", "fetch", "process"
  user,           \* slot -> the username of its request
  data,           \* slot -> the handler's local `data`, while the request runs
  resp,           \* slot -> its request's response: the return taken (path), the
                  \* object returned (body), str(e) if one was caught (msg), and
                  \* the upstream calls the request made (calls)
  rid,            \* slot -> the number of its request, in order of arrival
  started,        \* requests arrived so far
  upstreamCalls,  \* username -> calls of get_user_profile so far
  written,        \* key -> the result dict whose text the entry holds
  writtenAt,      \* key -> the clock at the last r.setex on the key (0: never)
  args,           \* a function called on its own: its name and arguments
  returned        \* what that call returned or raised

vars ==
  <<slots, cache, now, start, pc, user, data, resp, rid, started, upstreamCalls,
    written, writtenAt, args, returned>>

\* the service with the requests S, none arrived yet, and the store empty
ServiceInit(S) ==
  /\ slots = S
  /\ cache = [k \in Keys |-> Absent]
  /\ now \in StartTimes
  /\ start = now
  /\ pc = [s \in S |-> "idle"]
  /\ user = [s \in S |-> ""]
  /\ data = [s \in S |-> JNull]
  /\ resp = [s \in S |-> NoResponse]
  /\ rid = [s \in S |-> 0]
  /\ started = 0
  /\ upstreamCalls = [u \in Usernames |-> 0]
  /\ written = [k \in Keys |-> JNull]
  /\ writtenAt = [k \in Keys |-> 0]

InitWith(S) ==
  /\ ServiceInit(S)
  /\ args = NoCall
  /\ returned = Pending

Init == InitWith(Slots)

\* r.get(key) with decode_responses=True: the stored str, or None
CacheGet(store, key) ==
  IF store[key] = Absent THEN JNull ELSE JText(store[key].val)

\* a CacheSetex that gives the entry twice the time
CacheSetexDoubled(store, key, seconds, value) ==
  [store EXCEPT ![key] = [val |-> value, ttl |-> 2 * seconds]]
\* a CacheSetex that keeps an entry that is there
CacheSetexIfAbsent(store, key, seconds, value) ==
  IF store[key] = Absent
  THEN [store EXCEPT ![key] = [val |-> value, ttl |-> seconds]]
  ELSE store

\* r.setex(key, seconds, value)
CacheSetex(store, key, seconds, value) ==
  [store EXCEPT ![key] = [val |-> value, ttl |-> seconds]]

\* an Expire that lets no entry go
ExpireNever(store, seconds) ==
  [k \in DOMAIN store |->
     IF store[k] = Absent THEN Absent
     ELSE [store[k] EXCEPT !.ttl = IF @ > seconds THEN @ - seconds ELSE 0]]

\* the store once `seconds` have passed: an entry is gone when its time is up
Expire(store, seconds) ==
  [k \in DOMAIN store |->
     IF store[k] = Absent \/ store[k].ttl <= seconds THEN Absent
     ELSE [store[k] EXCEPT !.ttl = @ - seconds]]

\* a HitResponse that marks what it decoded as served from the cache
HitResponseMarked(cached_data) ==
  IF Loads(cached_data).ok /\ IsObj(Loads(cached_data).v)
  THEN Ok(JObj(PairsSet(Loads(cached_data).v.obj, "cached", JStr("true"))))
  ELSE Loads(cached_data)

\* the hit path's return: json.loads(cached_data)
HitResponse(cached_data) == Loads(cached_data)

Response(path, body, msg, calls) ==
  [path |-> path, body |-> body, msg |-> msg, calls |-> calls]
\* the response of the except clause for an exception whose str() is msg
Caught(path, msg, calls) == Response(path, CatchAll(msg), msg, calls)

\* the lookup's return when cached_data is truthy, r being json.loads' outcome
Hit(r) == IF r.ok THEN Response("hit", r.v, "", 0) ELSE Caught("failed", r.msg, 0)

\* A request for username arrives at slot s and looks the cache up.
Lookup(s, username, reachable) ==
  /\ pc[s] = "idle"
  /\ started < MaxRequests
  /\ started' = started + 1
  /\ rid' = [rid EXCEPT ![s] = started + 1]
  /\ user' = [user EXCEPT ![s] = username]
  /\ data' = [data EXCEPT ![s] = JNull]
  /\ IF ~reachable
     THEN /\ resp' = [resp EXCEPT ![s] = Caught("lookup_failed", CacheDownMessage, 0)]
          /\ pc' = pc
     ELSE \E cached_data \in {CacheGet(cache, CacheKey(username))} :
          IF Truthy(cached_data)
          THEN /\ resp' = [resp EXCEPT ![s] = Hit(HitResponse(cached_data))]
               /\ pc' = pc
          ELSE /\ resp' = [resp EXCEPT ![s] = NoResponse]
               /\ pc' = [pc EXCEPT ![s] = "fetch"]
  /\ UNCHANGED <<slots, cache, now, start, upstreamCalls, written, writtenAt>>
  /\ UNCHANGED <<args, returned>>

\* a Fetch that calls again when the call raised
FetchRetrying(s, outcome) ==
  /\ pc[s] = "fetch"
  /\ upstreamCalls' = [upstreamCalls EXCEPT ![user[s]] = @ + 1]
  /\ IF outcome.ok
     THEN /\ data' = [data EXCEPT ![s] = outcome.v]
          /\ resp' = [resp EXCEPT ![s].calls = @ + 1]
          /\ pc' = [pc EXCEPT ![s] = "process"]
     ELSE /\ data' = data
          /\ resp' = [resp EXCEPT ![s].calls = @ + 1]
          /\ pc' = pc
  /\ UNCHANGED <<slots, cache, now, start, user, rid, started, written, writtenAt>>
  /\ UNCHANGED <<args, returned>>

\* The request at slot s calls get_user_profile, which returns or raises.
Fetch(s, outcome) ==
  /\ pc[s] = "fetch"
  /\ upstreamCalls' = [upstreamCalls EXCEPT ![user[s]] = @ + 1]
  /\ IF outcome.ok
     THEN /\ data' = [data EXCEPT ![s] = outcome.v]
          /\ resp' = [resp EXCEPT ![s].calls = 1]
          /\ pc' = [pc EXCEPT ![s] = "process"]
     ELSE /\ data' = data
          /\ resp' = [resp EXCEPT ![s] = Caught("upstream_failed", outcome.msg, 1)]
          /\ pc' = [pc EXCEPT ![s] = "idle"]
  /\ UNCHANGED <<slots, cache, now, start, user, rid, started, written, writtenAt>>
  /\ UNCHANGED <<args, returned>>

\* The request at slot s checks and reshapes the payload, stores the result and
\* returns.
Process(s, reachable) ==
  /\ pc[s] = "process"
  /\ pc' = [pc EXCEPT ![s] = "idle"]
  /\ data' = [data EXCEPT ![s] = JNull]
  /\ \E a \in {Assemble(data[s], DateFromTimestamp(now))} :
     IF a.kind = "not_found"
     THEN /\ resp' = [resp EXCEPT ![s] =
                        Response("not_found", ErrorObj(NotFoundMessage), "", 1)]
          /\ UNCHANGED <<cache, written, writtenAt>>
     ELSE IF a.kind = "raise"
     THEN /\ resp' = [resp EXCEPT ![s] = Caught("failed", a.msg, 1)]
          /\ UNCHANGED <<cache, written, writtenAt>>
     ELSE IF ~reachable
     THEN /\ resp' = [resp EXCEPT ![s] = Caught("store_failed", CacheDownMessage, 1)]
          /\ UNCHANGED <<cache, written, writtenAt>>
     ELSE /\ cache' = CacheSetex(cache, CacheKey(user[s]), TTL, Dumps(a.v))
          /\ written' = [written EXCEPT ![CacheKey(user[s])] = a.v]
          /\ writtenAt' = [writtenAt EXCEPT ![CacheKey(user[s])] = now]
          /\ resp' = [resp EXCEPT ![s] = Response("miss", a.v, "", 1)]
  /\ UNCHANGED <<slots, now, start, user, rid, started, upstreamCalls>>
  /\ UNCHANGED <<args, returned>>

\* Time passes.
Tick ==
  /\ now < start + MaxTicks * TickSeconds
  /\ now' = now + TickSeconds
  /\ cache' = Expire(cache, TickSeconds)
  /\ written' = [k \in Keys |-> IF cache'[k] = Absent THEN JNull ELSE written[k]]
  /\ UNCHANGED <<slots, start, pc, user, data, resp, rid, started, upstreamCalls>>
  /\ UNCHANGED <<writtenAt, args, returned>>

Next ==
  \/ \E s \in slots, u \in Usernames, reachable \in BOOLEAN :
       Lookup(s, u, reachable)
  \/ \E s \in slots : \E outcome \in UpstreamOutcomes(user[s]) : Fetch(s, outcome)
  \/ \E s \in slots, reachable \in BOOLEAN : Process(s, reachable)
  \/ Tick

Spec == Init /\ [][Next]_vars

\* ------------------------------------- two requests at a time

\* what upstream answers while two requests run: the user's payload, the
\* payload after the user has solved one more, or a failed call
ConcurrentOutcomes(username) ==
  { Ok(Payload(User(Identity(username),
                    << <<"profile", FullProfile>> >> \o Activity(10, CalTwoYears)))),
    Ok(Payload(User(Identity(username),
                    << <<"profile", FullProfile>> >> \o Activity(11, CalBoundary)))),
    Raise(JsonError) }

ConcurrentInit == InitWith({"r1", "r2"})

\* the store is within reach throughout
ConcurrentNext ==
  \/ \E s \in slots, u \in Usernames : Lookup(s, u, TRUE)
  \/ \E s \in slots : \E outcome \in ConcurrentOutcomes(user[s]) : Fetch(s, outcome)
  \/ \E s \in slots : Process(s, TRUE)
  \/ Tick

ConcurrentSpec == ConcurrentInit /\ [][ConcurrentNext]_vars

\* ------------------------------------- process_progress_by_year on its own

\* the entries of a calendar at most, and the counts they carry
MaxEntries == 3
Counts == {1, 2}

\* date.today(): the days around the dates of Timestamps, a year before and
\* a year after
Todays == {19681, 20046, 20047, 20412}

\* the dict with the keys ts[i], as text, and the values ks[i], inserted in
\* the order of i
CalendarOf(ts, ks) ==
  JObj([i \in DOMAIN ts |-> <<ToString(ts[i]), JInt(ks[i])>>])

\* a call for every dict of at most MaxEntries entries over Timestamps, in
\* every order of insertion, and every today
ProgressInit ==
  /\ ServiceInit({})
  /\ returned = Pending
  /\ \E n \in 0..MaxEntries :
       \E ts \in [1..n -> Timestamps], ks \in [1..n -> Counts], t \in Todays :
         /\ \A i, j \in 1..n : i # j => ts[i] # ts[j]
         /\ args = [fn |-> "process_progress_by_year",
                    submission_calendar |-> CalendarOf(ts, ks), today |-> t]

\* progress = process_progress_by_year(submission_calendar)
CallProgress ==
  /\ args.fn = "process_progress_by_year"
  /\ returned = Pending
  /\ returned' = ProcessProgressByYear(args.submission_calendar, args.today)
  /\ UNCHANGED <<slots, cache, now, start, pc, user, data, resp, rid, started>>
  /\ UNCHANGED <<upstreamCalls, written, writtenAt, args>>

ProgressNext == CallProgress

ProgressSpec == ProgressInit /\ [][ProgressNext]_vars

\* ------------------------------------- the problem statistics on their own

\* the entries of allQuestionsCount and acSubmissionNum together, at most
MaxStats == 3
Difficulties == {"Easy", "Medium", "Hard", "All", "Extreme"}
StatCounts == {3, 7}

\* the entries a list may hold
StatEntries == {Stat(d, c) : d \in Difficulties, c \in StatCounts}

\* matchedUser with nothing but the accepted submissions ac
UserWithStats(ac) ==
  JObj(<< <<"submitStats", JObj(<< <<"acSubmissionNum", JList(ac)>> >>)>> >>)

\* a call for every pair of lists of at most MaxStats entries together
ProblemInit ==
  /\ ServiceInit({})
  /\ returned = Pending
  /\ \E n \in 0..MaxStats, m \in 0..MaxStats :
       /\ n + m <= MaxStats
       /\ \E qs \in [1..n -> StatEntries], ac \in [1..m -> StatEntries] :
            args = [fn |-> "problems", all_questions |-> JList(qs),
                    user_data |-> UserWithStats(ac)]

\* problems = {...} and the two loops that fill it
CallProblems ==
  /\ args.fn = "problems"
  /\ returned = Pending
  /\ returned' = ProblemStatistics(args.all_questions, args.user_data)
  /\ UNCHANGED <<slots, cache, now, start, pc, user, data, resp, rid, started>>
  /\ UNCHANGED <<upstreamCalls, written, writtenAt, args>>

ProblemNext == CallProblems

ProblemSpec == ProblemInit /\ [][ProblemNext]_vars

\* ------------------------------------------------------------ properties

\* the request at slot s has returned
Done(s) == pc[s] = "idle" /\ rid[s] > 0
\* this step is the arrival and lookup of a request at slot s
LookupStep(s) == started' = started + 1 /\ rid'[s] = started'
\* this step is the last of a request at slot s that called upstream
ProcessStep(s) == pc[s] = "process" /\ pc'[s] = "idle"

NotFoundObject ==
  [obj |-> << <<"error",
     [str |-> "Could not fetch user data. Maybe invalid username or blocked request."]>> >>]
GenericObject(msg) ==
  [obj |-> << <<"error", [str |-> "An error occurred: " \o msg]>> >>]
IsErrorOnly(o) == IsObj(o) /\ Len(o.obj) = 1 /\ o.obj[1][1] = "error"

ProfileKeys ==
  {"username", "github", "twitter", "linkedin", "ranking", "realname",
   "aboutme", "school", "website", "country_name", "company", "job_title",
   "skill", "progress", "problem"}
IsFullProfile(o) ==
  /\ IsObj(o)
  /\ Len(o.obj) = Cardinality(ProfileKeys)
  /\ {o.obj[i][1] : i \in 1..Len(o.obj)} = ProfileKeys

\* C1: when the lookup finds an entry under the request's key, the request
\* returns the decoded stored value (which encodes back to the stored text),
\* calls upstream not at all, and leaves the store, the entry's value and its
\* remaining time to live as they were.
C1_HitReturnsStoredValue ==
  [][\A s \in slots :
       (/\ LookupStep(s)
        /\ cache[CacheKey(user'[s])] # Absent
        /\ resp'[s].path # "lookup_failed")
       => /\ resp'[s].path = "hit"
          /\ Ok(resp'[s].body) = Loads(JText(cache[CacheKey(user'[s])].val))
          /\ Dumps(resp'[s].body) = cache[CacheKey(user'[s])].val
          /\ resp'[s].calls = 0
          /\ upstreamCalls' = upstreamCalls
          /\ cache' = cache
          /\ pc'[s] = "idle"]_vars

\* a hit on an entry that has aged: its time to live was not renewed
C1_Witness ==
  \E s \in slots :
    /\ Done(s) /\ resp[s].path = "hit"
    /\ cache[CacheKey(user[s])] # Absent
    /\ cache[CacheKey(user[s])].ttl < TTL

\* C2: while the entry a successful miss wrote for U is there, a request for U
\* whose lookup reaches the store returns the very object that miss returned
\* and calls upstream no second time.
C2_RoundTrip ==
  [][\A s \in slots :
       (/\ LookupStep(s)
        /\ written[CacheKey(user'[s])] # JNull
        /\ resp'[s].path # "lookup_failed")
       => /\ resp'[s].path = "hit"
          /\ resp'[s].body = written[CacheKey(user'[s])]
          /\ upstreamCalls' = upstreamCalls
          /\ pc'[s] = "idle"]_vars

\* a hit after the one upstream call made for the username
C2_Witness ==
  \E s \in slots :
    /\ Done(s) /\ resp[s].path = "hit"
    /\ resp[s].body = written[CacheKey(user[s])]
    /\ upstreamCalls[user[s]] = 1

\* the payload is a dict that lacks data.matchedUser: no "data" key, "data" null
\* or empty, "matchedUser" null, or "data" without a "matchedUser" key
LacksMatchedUser(p) ==
  /\ IsObj(p)
  /\ \/ ~PairsHas(p.obj, "data")
     \/ IsNull(PairsGet(p.obj, "data"))
     \/ /\ IsObj(PairsGet(p.obj, "data"))
        /\ \/ ~PairsHas(PairsGet(p.obj, "data").obj, "matchedUser")
           \/ IsNull(PairsGet(PairsGet(p.obj, "data").obj, "matchedUser"))

\* C3: a miss whose payload lacks data.matchedUser returns the not-found object
\* and writes nothing to the store.
C3_NotFoundWithoutUser ==
  [][\A s \in slots :
       (ProcessStep(s) /\ LacksMatchedUser(data[s]))
       => /\ resp'[s].body = NotFoundObject
          /\ cache' = cache]_vars

\* C4, as claimed: a transport failure returns the not-found object.
C4_TransportFailureIsNotFound ==
  \A s \in slots :
    resp[s].path = "upstream_failed" => resp[s].body = NotFoundObject

\* C4, amended: a transport failure returns the catch-all's object, with the
\* failure's message, and writes nothing to the store.
C4_TransportFailureIsCaught ==
  [][\A s \in slots :
       (pc[s] = "fetch" /\ pc'[s] = "idle")
       => /\ resp'[s].path = "upstream_failed"
          /\ resp'[s].msg \in TransportFailures
          /\ resp'[s].body = GenericObject(resp'[s].msg)
          /\ cache' = cache]_vars

\* a request has returned after its upstream call failed
C4_Witness ==
  \E s \in slots :
    /\ Done(s) /\ resp[s].path = "upstream_failed"
    /\ resp[s].body # NotFoundObject

\* C5: a request whose lookup cannot reach the store goes on as a miss: it
\* calls upstream and returns no error object for the store's sake.
C5_CacheDownIsMiss ==
  \A s \in slots :
    resp[s].path = "lookup_failed"
      => resp[s].calls = 1 /\ ~IsErrorOnly(resp[s].body)

\* C6: a request whose profile is assembled returns it even when the write to
\* the store fails.
C6_WriteFailureKeepsProfile ==
  \A s \in slots :
    resp[s].path = "store_failed" => IsFullProfile(resp[s].body)

\* matchedUser is there and its submissionCalendar is a str that is no JSON
MalformedCalendar(p) ==
  /\ ~LacksMatchedUser(p) /\ SafetyCheck(p) = Ok(FALSE)
  /\ Subscript(PairsGet(PairsGet(p.obj, "data").obj, "matchedUser"),
               "userCalendar").ok
  /\ \E c \in {Subscript(Subscript(PairsGet(PairsGet(p.obj, "data").obj,
                                            "matchedUser"),
                                   "userCalendar").v, "submissionCalendar")} :
       c.ok /\ IsStr(c.v) /\ ~Loads(c.v).ok

\* C7: a miss whose calendar string is no JSON returns the catch-all's object
\* and leaves the store as it was.
C7_MalformedCalendar ==
  [][\A s \in slots :
       (ProcessStep(s) /\ MalformedCalendar(data[s]))
       => /\ resp'[s].path = "failed"
          /\ resp'[s].body = GenericObject(resp'[s].msg)
          /\ cache' = cache]_vars

\* a request has returned the JSON decoder's error after its upstream call
C7_Witness ==
  \E s \in slots :
    /\ Done(s) /\ resp[s].path = "failed" /\ resp[s].calls = 1
    /\ resp[s].body = GenericObject("Expecting value: line 1 column 1 (char 0)")

FailurePaths == {"failed", "lookup_failed", "upstream_failed", "store_failed"}

\* C8: every request returns one object; a failure other than not-found is
\* answered with the single key "error" and "An error occurred: " before the
\* failure's message, a transport failure among them; a request that has not
\* returned has no response.
C8_CatchAll ==
  \A s \in slots :
    /\ Done(s) =>
         /\ IsObj(resp[s].body)
         /\ resp[s].path \in {"hit", "miss", "not_found"} \cup FailurePaths
         /\ resp[s].path = "not_found" => resp[s].body = NotFoundObject
         /\ resp[s].path \in FailurePaths
              => resp[s].body = GenericObject(resp[s].msg)
         /\ resp[s].path \in {"hit", "miss"} => ~IsErrorOnly(resp[s].body)
    /\ ~Done(s) => resp[s].path = "none"

\* a request has returned the catch-all's object for a payload that is None
C8_Witness ==
  \E s \in slots :
    /\ Done(s) /\ resp[s].path = "failed"
    /\ resp[s].body =
         GenericObject("argument of type 'NoneType' is not iterable")

\* the payload with matchedUser's "profile" key taken out
WithoutProfile(p) ==
  Payload(JObj(SelectSeq(PairsGet(PairsGet(p.obj, "data").obj, "matchedUser").obj,
                         LAMBDA m : m[1] # "profile")))

\* matchedUser is a dict, and nothing but its profile can keep the payload
\* from being assembled
OnlyProfileInDoubt(p) ==
  /\ ~LacksMatchedUser(p) /\ IsObj(p) /\ IsObj(PairsGet(p.obj, "data"))
  /\ IsObj(PairsGet(PairsGet(p.obj, "data").obj, "matchedUser"))
  /\ Assemble(WithoutProfile(p), 0).kind = "result"

\* the value result[k] is a list
IsListAt(result, k) == IsList(PairsGet(result.obj, k))

\* C9: a miss with matchedUser present returns a full profile whatever identity
\* and profile fields are absent or null, a missing list being empty.
C9_MissingFieldsDegrade ==
  [][\A s \in slots :
       (ProcessStep(s) /\ OnlyProfileInDoubt(data[s]))
       => /\ resp'[s].path \in {"miss", "store_failed"}
          /\ resp'[s].path = "miss"
               => /\ IsFullProfile(resp'[s].body)
                  /\ IsListAt(resp'[s].body, "website")
                  /\ IsListAt(resp'[s].body, "skill")]_vars

\* C10: every response is a profile with all fifteen keys or an object with the
\* single key "error"; every entry of the store decodes to such a profile, and
\* what a hit serves is one.
C10_NoPartialResults ==
  /\ \A s \in slots :
       /\ Done(s) => IsFullProfile(resp[s].body) \/ IsErrorOnly(resp[s].body)
       /\ resp[s].path \in {"hit", "miss"} => IsFullProfile(resp[s].body)
       /\ resp[s].path \in {"not_found"} \cup FailurePaths
            => IsErrorOnly(resp[s].body)
  /\ \A k \in Keys :
       cache[k] # Absent
         => \E r \in {Loads(JText(cache[k].val))} : r.ok /\ IsFullProfile(r.v)

\* a request has failed while the store holds an entry
C10_Witness ==
  \E s \in slots :
    /\ Done(s) /\ IsErrorOnly(resp[s].body)
    /\ \E k \in Keys : cache[k] # Absent

\* ---- process_progress_by_year

\* the call of process_progress_by_year has returned
ProgressReturned == args.fn = "process_progress_by_year" /\ returned # Pending
\* the date, as a day ordinal, of the calendar key k
DateOfKey(k) == (CHOOSE t \in Timestamps : ToString(t) = k) \div 86400
\* a bucket's daily map, as pairs, and its total
DailyOf(bucket) == PairsGet(bucket.obj, "daily").obj
TotalOf(bucket) == PairsGet(bucket.obj, "total").int
\* the calendar-year buckets of a report, in the order enumerated
YearBuckets(progress) ==
  SelectSeq(progress.obj, LAMBDA m : m[1] # "current")

RECURSIVE SumCounts(_, _)
\* the sum of the counts of the pairs ps[i..]
SumCounts(ps, i) ==
  IF i > Len(ps) THEN 0 ELSE ps[i][2].int + SumCounts(ps, i + 1)
RECURSIVE SumTotals(_, _)
\* the sum of the totals of the buckets bs[i..]
SumTotals(bs, i) ==
  IF i > Len(bs) THEN 0 ELSE TotalOf(bs[i][2]) + SumTotals(bs, i + 1)
RECURSIVE SumDailies(_, _)
\* the sum of the daily counts of the buckets bs[i..]
SumDailies(bs, i) ==
  IF i > Len(bs) THEN 0
  ELSE SumCounts(DailyOf(bs[i][2]), 1) + SumDailies(bs, i + 1)

\* C11: an entry's date is a key of the "current" bucket's daily map exactly
\* when today - 365 <= date <= today; "current" has no other key, and the date
\* is a key of its calendar year's bucket either way.
C11_WindowMembership ==
  ProgressReturned =>
    /\ returned.ok
    /\ \A i \in 1..Len(args.submission_calendar.obj) :
         \E d \in {DateOfKey(args.submission_calendar.obj[i][1])} :
           /\ PairsHas(DailyOf(PairsGet(returned.v.obj, "current")), IsoFormat(d))
                <=> (args.today - 365 <= d /\ d <= args.today)
           /\ PairsHas(returned.v.obj, ToString(YearOf(d)))
           /\ PairsHas(DailyOf(PairsGet(returned.v.obj, ToString(YearOf(d)))),
                       IsoFormat(d))
    /\ \A j \in 1..Len(DailyOf(PairsGet(returned.v.obj, "current"))) :
         \E i \in 1..Len(args.submission_calendar.obj) :
           IsoFormat(DateOfKey(args.submission_calendar.obj[i][1]))
             = DailyOf(PairsGet(returned.v.obj, "current"))[j][1]

\* the entry dated 365 days before today is in "current", the entry dated the
\* day after today is not
C11_Witness ==
  /\ ProgressReturned /\ returned.ok
  /\ args.today = 20046
  /\ PairsHas(args.submission_calendar.obj, "1700438400")
  /\ PairsHas(args.submission_calendar.obj, "1732060800")
  /\ PairsHas(DailyOf(PairsGet(returned.v.obj, "current")), "2023-11-20")
  /\ ~PairsHas(DailyOf(PairsGet(returned.v.obj, "current")), "2024-11-20")

\* C12: the totals of the calendar-year buckets sum to the sum of the
\* calendar's counts, and so do their daily counts.
C12_CountConservation ==
  ProgressReturned =>
    /\ returned.ok
    /\ SumTotals(YearBuckets(returned.v), 1)
         = SumCounts(args.submission_calendar.obj, 1)
    /\ SumDailies(YearBuckets(returned.v), 1)
         = SumCounts(args.submission_calendar.obj, 1)

\* the years of the calendar's dates
YearsOfCalendar ==
  {YearOf(DateOfKey(args.submission_calendar.obj[i][1])) :
     i \in 1..Len(args.submission_calendar.obj)}
\* the year a key of the report names
YearNamed(k) == CHOOSE y \in YearsOfCalendar : ToString(y) = k

\* C13: the report enumerates "current" first, then one key for each year that
\* occurs in the calendar and no other, the years strictly descending;
\* "current" is {"daily": {}, "total": 0} when no entry is in the window.
C13_ShapeAndOrder ==
  ProgressReturned =>
    /\ returned.ok
    /\ Len(returned.v.obj) = 1 + Cardinality(YearsOfCalendar)
    /\ returned.v.obj[1][1] = "current"
    /\ {returned.v.obj[i][1] : i \in 2..Len(returned.v.obj)}
         = {ToString(y) : y \in YearsOfCalendar}
    /\ \A i, j \in 2..Len(returned.v.obj) :
         i < j => YearNamed(returned.v.obj[i][1]) > YearNamed(returned.v.obj[j][1])
    /\ (\A i \in 1..Len(args.submission_calendar.obj) :
          \E d \in {DateOfKey(args.submission_calendar.obj[i][1])} :
            d < args.today - 365 \/ d > args.today)
         => returned.v.obj[1][2]
              = [obj |-> << <<"daily", [obj |-> <<>>]>>, <<"total", [int |-> 0]>> >>]

\* a calendar of three years, inserted oldest year last, none in the window
C13_Witness ==
  /\ ProgressReturned /\ returned.ok
  /\ Len(returned.v.obj) = 4
  /\ args.submission_calendar.obj[3][1] = "1650000000"
  /\ Len(DailyOf(PairsGet(returned.v.obj, "current"))) = 0

\* ---- the problem statistics

ProblemsReturned == args.fn = "problems" /\ returned # Pending
\* the difficulty name d, lower-cased, is the tier
IsTier(d, tier) ==
  \/ d = "Easy" /\ tier = "easy"
  \/ d = "Medium" /\ tier = "medium"
  \/ d = "Hard" /\ tier = "hard"
\* the count of the last entry of stats for the tier, 0 when there is none
TierCount(stats, tier) ==
  IF \E i \in 1..Len(stats) : IsTier(stats[i].obj[1][2].str, tier)
  THEN stats[CHOOSE i \in 1..Len(stats) :
               /\ IsTier(stats[i].obj[1][2].str, tier)
               /\ \A j \in (i + 1)..Len(stats) :
                    ~IsTier(stats[j].obj[1][2].str, tier)].obj[2][2].int
  ELSE 0

\* C14: the problem map has the keys easy, medium and hard and no other; a
\* tier's total is the count of the last entry of the global list that names
\* it and its solved that of the accepted list, 0 without one; an entry that
\* names no tier changes nothing.
C14_TierSetClosed ==
  ProblemsReturned =>
    /\ returned.ok
    /\ Len(returned.v.obj) = 3
    /\ {returned.v.obj[i][1] : i \in 1..3} = {"easy", "medium", "hard"}
    /\ \A tier \in {"easy", "medium", "hard"} :
         PairsGet(returned.v.obj, tier)
           = [obj |-> <<
                <<"solved",
                  [int |-> TierCount(
                     args.user_data.obj[1][2].obj[1][2].list, tier)]>>,
                <<"total",
                  [int |-> TierCount(args.all_questions.list, tier)]>> >>]

\* the global list names "All" and a tier, the accepted list a new difficulty
C14_Witness ==
  /\ ProblemsReturned /\ returned.ok
  /\ \E i \in 1..Len(args.all_questions.list) :
       args.all_questions.list[i].obj[1][2].str = "All"
  /\ \E i \in 1..Len(args.all_questions.list) :
       args.all_questions.list[i].obj[1][2].str = "Hard"
  /\ \E i \in 1..Len(args.user_data.obj[1][2].obj[1][2].list) :
       args.user_data.obj[1][2].obj[1][2].list[i].obj[1][2].str = "Extreme"
  /\ PairsGet(PairsGet(returned.v.obj, "hard").obj, "total").int > 0

\* C19: every bucket of the report, "current" and each year, has a total equal
\* to the sum of the counts of its own daily map.
C19_BucketTotals ==
  ProgressReturned =>
    /\ returned.ok
    /\ \A i \in 1..Len(returned.v.obj) :
         TotalOf(returned.v.obj[i][2]) = SumCounts(DailyOf(returned.v.obj[i][2]), 1)

\* ---- the store

\* C15: a write gives the entry 3600 seconds; an entry written at t is there
\* while the clock is before t + 3600 and gone from then on, whatever was
\* served in between; no step of a request removes an entry or renews its
\* time, and a lookup that finds no entry goes on to call upstream.
C15_FixedExpiry ==
  /\ [](\A k \in DOMAIN cache :
          /\ cache[k] # Absent
               => cache[k].ttl = writtenAt[k] + 3600 - now
          /\ writtenAt[k] > 0
               => (cache[k] # Absent <=> now < writtenAt[k] + 3600))
  /\ [][/\ \A k \in DOMAIN cache :
             /\ writtenAt'[k] # writtenAt[k]
                  => cache'[k] # Absent /\ cache'[k].ttl = 3600
             /\ (cache[k] # Absent /\ now' = now)
                  => /\ cache'[k] # Absent
                     /\ cache'[k] = cache[k] \/ cache'[k].ttl = 3600
        /\ \A s \in slots :
             LookupStep(s)
               => /\ cache' = cache
                  /\ (/\ cache["leetcode_user:" \o user'[s]] = Absent
                      /\ resp'[s].path # "lookup_failed")
                       => pc'[s] = "fetch"]_vars

\* a miss has written a fresh entry for a username whose first entry ran out
C15_Witness ==
  \E s \in slots :
    /\ Done(s) /\ resp[s].path = "miss"
    /\ upstreamCalls[user[s]] = 2
    /\ writtenAt[CacheKey(user[s])] >= start + 3600
    /\ cache[CacheKey(user[s])] # Absent
    /\ cache[CacheKey(user[s])].ttl = 3600

\* this step is one of the request at slot s
RequestStep(s) == LookupStep(s) \/ pc'[s] # pc[s]

\* C16: the key of a request for U is "leetcode_user:" and U as given, so that
\* usernames that differ in case have different keys; a step of the request
\* leaves every other key's entry as it was, and what a hit serves is the
\* entry under the request's own key.
C16_KeyIsolation ==
  [][\A s \in slots :
       RequestStep(s)
       => /\ CacheKey(user'[s]) = "leetcode_user:" \o user'[s]
          /\ \A v \in Usernames : v # user'[s] => CacheKey(v) # CacheKey(user'[s])
          /\ \A k \in DOMAIN cache :
               k # "leetcode_user:" \o user'[s] => cache'[k] = cache[k]
          /\ resp'[s].path = "hit"
               => /\ cache["leetcode_user:" \o user'[s]] # Absent
                  /\ Ok(resp'[s].body)
                       = Loads(JText(cache["leetcode_user:" \o user'[s]].val))]_vars

\* "Alice" is served her own entry while "alice" has another
C16_Witness ==
  \E s \in slots :
    /\ Done(s) /\ resp[s].path = "hit" /\ user[s] = "Alice"
    /\ cache["leetcode_user:alice"] # Absent
    /\ cache["leetcode_user:Alice"] # Absent
    /\ cache["leetcode_user:alice"].val # cache["leetcode_user:Alice"].val
    /\ Dumps(resp[s].body) = cache["leetcode_user:Alice"].val

\* C17: upstream is called only by a request whose lookup found no entry, once,
\* and the call ends the fetch whatever its outcome; a request that was served
\* from the store or failed at the lookup has made no call, every other
\* request one.
C17_NoRetries ==
  [][/\ \A u \in Usernames :
          upstreamCalls'[u] # upstreamCalls[u]
            => \E s \in slots :
                 /\ pc[s] = "fetch" /\ user[s] = u
                 /\ pc'[s] \in {"process", "idle"}
                 /\ upstreamCalls' = [upstreamCalls EXCEPT ![u] = @ + 1]
     /\ \A s \in slots :
          /\ (pc'[s] = "fetch" /\ (pc[s] # "fetch" \/ rid'[s] # rid[s]))
               => /\ LookupStep(s)
                  /\ cache["leetcode_user:" \o user'[s]] = Absent
          /\ (pc[s] = "fetch" /\ pc'[s] # "fetch")
               => upstreamCalls'[user[s]] = upstreamCalls[user[s]] + 1
          /\ pc[s] = "process" => pc'[s] \in {"process", "idle"}
          /\ LookupStep(s) => upstreamCalls' = upstreamCalls
          /\ (pc'[s] = "idle" /\ rid'[s] > 0)
               => resp'[s].calls
                    = IF resp'[s].path \in {"hit", "lookup_failed"} THEN 0 ELSE 1
    ]_vars

\* two requests for a username have failed upstream, with one call each
C17_Witness ==
  \E s \in slots :
    /\ Done(s) /\ resp[s].path = "upstream_failed" /\ resp[s].calls = 1
    /\ started = 2
    /\ upstreamCalls[user[s]] = 2

\* this step is the write of a request at slot s that found no entry at its
\* lookup and finds one now: another request for the username has written
\* in between
SecondWrite(s) ==
  /\ ProcessStep(s) /\ resp'[s].path = "miss"
  /\ cache["leetcode_user:" \o user[s]] # Absent

\* C18, as claimed: the value the last of two concurrent misses stores is its
\* own and is equal to the value the other stored.
C18_ConcurrentWritesEquivalent ==
  [][\A s \in slots :
       SecondWrite(s)
       => /\ cache'["leetcode_user:" \o user[s]].val = Dumps(resp'[s].body)
          /\ cache'["leetcode_user:" \o user[s]].val
               = cache["leetcode_user:" \o user[s]].val]_vars

\* C18, amended: each of two concurrent misses has called upstream, returns
\* the profile it assembled from its own payload, and stores it; the entry is
\* the last writer's, with 3600 seconds to live, and it is the other's value
\* too only if the profile assembled is the same.
C18_LastWriterWins ==
  [][\A s \in slots :
       SecondWrite(s)
       => /\ upstreamCalls[user[s]] >= 2
          /\ resp'[s].calls = 1
          /\ \E a \in {Assemble(data[s], now \div 86400)} :
               /\ a.kind = "result"
               /\ resp'[s].body = a.v
               /\ cache'["leetcode_user:" \o user[s]]
                    = [val |-> Dumps(a.v), ttl |-> 3600]
               /\ (cache'["leetcode_user:" \o user[s]].val
                     = cache["leetcode_user:" \o user[s]].val)
                    <=> a.v = written["leetcode_user:" \o user[s]]]_vars

\* two misses for a username have both returned, with different profiles, and
\* the store holds the one written last
C18_Witness ==
  \E s, o \in slots :
    /\ s # o /\ Done(s) /\ Done(o) /\ user[s] = user[o]
    /\ resp[s].path = "miss" /\ resp[o].path = "miss"
    /\ resp[s].body # resp[o].body
    /\ upstreamCalls[user[s]] = 2
    /\ cache[CacheKey(user[s])] # Absent
    /\ cache[CacheKey(user[s])].val = Dumps(resp[s].body)
    /\ now = start

\* C20: what a hit for U returns is the profile that the last write under U's
\* key stored, less than 3600 seconds before; that write stored the profile
\* its request assembled from its payload with the date of the write.
C20_BoundedStaleness ==
  [][\A s \in slots :
       /\ (LookupStep(s) /\ resp'[s].path = "hit")
            => /\ resp'[s].body = written["leetcode_user:" \o user'[s]]
               /\ Dumps(resp'[s].body) = cache["leetcode_user:" \o user'[s]].val
               /\ writtenAt["leetcode_user:" \o user'[s]] <= now
               /\ now - writtenAt["leetcode_user:" \o user'[s]] < 3600
       /\ (ProcessStep(s) /\ resp'[s].path = "miss")
            => /\ writtenAt'["leetcode_user:" \o user[s]] = now
               /\ \E a \in {Assemble(data[s], now \div 86400)} :
                    /\ a.kind = "result"
                    /\ written'["leetcode_user:" \o user[s]] = a.v
                    /\ cache'["leetcode_user:" \o user[s]].val = Dumps(a.v)]_vars

\* a hit has served, on 2024-11-20, a profile whose "current" bucket was
\* computed on 2024-11-19: it holds 2023-11-20 and not 2024-11-20
C20_Witness ==
  \E s \in slots :
    /\ Done(s) /\ resp[s].path = "hit"
    /\ now \div 86400 = 20047
    /\ writtenAt[CacheKey(user[s])] \div 86400 = 20046
    /\ PairsHas(DailyOf(PairsGet(PairsGet(resp[s].body.obj, "progress").obj,
                                 "current")), "2023-11-20")
    /\ ~PairsHas(DailyOf(PairsGet(PairsGet(resp[s].body.obj, "progress").obj,
                                  "current")), "2024-11-20")

====
